---- MODULE Spec2Model ----
(***************************************************************************)
(* Traffic monitoring system: the line-crossing state machine of           *)
(* TrafficMonitoringSystem.process_frame with its speed estimator, and the *)
(* queue, worker thread and shutdown protocol of DatabaseManager, the      *)
(* construction of a DatabaseManager from its environment, and the         *)
(* result_callback and try/finally block of run.py.                        *)
(*                                                                         *)
(* Units.  time.time() readings are integers counting tenths of a second;  *)
(* speeds are integers counting tenths of a mile per hour (the code rounds *)
(* to one decimal place); x coordinates are whole pixels.                  *)
(***************************************************************************)
EXTENDS Integers, Sequences, FiniteSets, TLC

VARIABLES
    \* ---- TrafficMonitoringSystem ----
    vehicle_timestamps, \* self.vehicle_timestamps: track id -> {"start": t, "end": t}
    current_time,       \* the last time.time() reading taken by process_frame
    frame_pc,           \* position of process_frame: "idle", "loop" or "raised"
    row,                \* the row of zip(boxes, track_ids, ...) of the running iteration
    rows_done,          \* the number of rows the for loop has taken in this call
    detected_vehicles,  \* response["detected_vehicles"] of the running call
    number_of_vehicles_detected, \* response["number_of_vehicles_detected"] of that call
    started_in_call,    \* history: the ids whose start time was set in the running call
    local_start_time,   \* the local start_time (line 186) of the running call
    crossing_open,      \* history: id -> a start transition not yet followed by an event
    replay_pc,          \* the caller that passes one frame twice: "off", "first"
                        \* (first call running), "between", "again" (second call running)
    frame_rows,         \* the tracker's rows for the frame that is passed twice
    first_response,     \* detected_vehicles returned by the first of the two calls
    \* ---- DatabaseManager ----
    db_queue,           \* self.db_queue: the items waiting in the Queue
    unfinished_tasks,   \* Queue.unfinished_tasks: put() calls minus task_done() calls
    terminate_worker,   \* self.terminate_worker
    worker_pc,          \* position of the _db_worker thread
    vehicle_doc,        \* the worker's local vehicle_doc ("none" before the first get)
    client_closed,      \* self.client.close() has been called
    shutdown_pc,        \* position of the shutdown() call
    enqueued,           \* history: every document passed to add_vehicle, in call order
    insert_calls,       \* history: every document passed to insert_one, in call order
    stored,             \* history: every document whose insert_one returned
    puts_before_shutdown, \* history: Len(enqueued) when shutdown() began
    worker_pc_at_flag,  \* history: worker_pc when the flag was set ("unset" before)
    queue_at_flag,      \* history: db_queue when shutdown() set the flag
    insert_calls_at_flag, \* history: Len(insert_calls) when shutdown() set the flag
    gets_after_flag,    \* history: calls of db_queue.get that returned after shutdown() set the flag
    put_during_insert,  \* history: an add_vehicle call ran while insert_one had not returned
    put_after_failure,  \* history: an add_vehicle call ran after insert_one had raised
    put_after_exit,     \* history: an add_vehicle call ran after the worker had left its loop
    \* ---- DatabaseManager.__init__ ----
    environ,            \* os.environ: the three variables __init__ reads
    manager_pc,         \* "new" (__init__ not run), "constructed", "ValueError"
    error_variable,     \* the variable the ValueError names ("none" without an error)
    client_created,     \* MongoClient(...) has been called (line 32)
    queue_created,      \* Queue() has been called (line 37)
    manager_config,     \* self.connection_string, self.database_name, self.collection_name
    \* ---- run.py ----
    \* (the module keeps its own db_queue, terminate_worker, db_thread and
    \* collection, with a db_worker that is the loop of _db_worker: in the
    \* run.py specifications the DatabaseManager variables above stand for them)
    run_pc,             \* position of the module's try/finally: "process_video",
                        \* "finally" (line 116), "join_thread" (line 117),
                        \* "join_queue" (line 120), "ended"
    session_stats,      \* session_stats: total_vehicles, vehicles_by_type, last_weather
    result,             \* the result last handed to result_callback before end_time
    callback_time,      \* the local current_time of the last result_callback call,
                        \* in minutes since midnight
    exit_called,        \* exit(0) has been called (line 62)
    \* ---- TrafficMonitoringSystem._get_weather_condition ----
    api_key,            \* self.api_key: "None", "" or a key
    weather_data,       \* self.weather_data: weather_condition and last_updated
    weather_time,       \* current_time of the latest call (line 40), in seconds
    weather_returned,   \* history: what the latest call returned
    service_called      \* history: the latest call made the request of line 51

tms_vars == <<vehicle_timestamps, current_time, frame_pc, row, rows_done,
              detected_vehicles, number_of_vehicles_detected, started_in_call,
              local_start_time, crossing_open, replay_pc, frame_rows, first_response>>
db_vars == <<db_queue, unfinished_tasks, terminate_worker, worker_pc, vehicle_doc,
             client_closed, shutdown_pc, enqueued, insert_calls, stored,
             puts_before_shutdown, worker_pc_at_flag, queue_at_flag,
             insert_calls_at_flag, gets_after_flag, put_during_insert,
             put_after_failure, put_after_exit>>
ctor_vars == <<environ, manager_pc, error_variable, client_created, queue_created,
               manager_config>>
run_vars == <<run_pc, session_stats, result, callback_time, exit_called>>
weather_vars == <<api_key, weather_data, weather_time, weather_returned, service_called>>
vars == <<tms_vars, db_vars, ctor_vars, run_vars, weather_vars>>

(***************************************************************************)
(* Bounds of the model.                                                    *)
(***************************************************************************)
\* The most rows (observations) the tracker reports in one frame.
MaxObs == 2
\* The most add_vehicle calls in one run.
MaxEvents == 4

\* The number of track ids the tracker hands out.
NumTrackIds == 2

TrackIds == 1 .. NumTrackIds
\* The x centres an observation can have: the edges of the start zone and of
\* the end line, from both sides.
XValues == {417, 418, 518, 519, 1138, 1139}
\* The time.time() readings, in tenths of a second.  time.time() is the wall
\* clock and can be set back between two frames, so a reading may be earlier
\* than the one before it: differences of 0, 0.1 s, 0.5 s, 1 s, 1.5 s, 760 s,
\* 760.5 s, 760.6 s, 761.5 s and 761.6 s occur with either sign.
Times == {0, 10, 15, 7615, 7616}
\* The documents handed to add_vehicle.
VehicleDocs == {"car", "truck"}
\* The most documents result_callback enqueues in one run of run.py.
MaxRunEvents == 3
\* The vehicle types and weather conditions of the results handed to
\* result_callback, and the times of day (minutes since midnight) at which
\* it is called: one minute before end_time, at end_time, one minute after.
VehicleTypes == {"car", "truck"}
Weathers == {"Clear", "Rain"}
TimesOfDay == {1139, 1140, 1141}

(***************************************************************************)
(* Python dicts as functions with a finite domain.                         *)
(***************************************************************************)
EmptyDict == [k \in {} |-> 0]
DictSet(d, k, v) == [j \in DOMAIN d \cup {k} |-> IF j = k THEN v ELSE d[j]]
DictDel(d, k) == [j \in DOMAIN d \ {k} |-> d[j]]

(***************************************************************************)
(* TrafficMonitoringSystem                                                 *)
(***************************************************************************)
distance == 17
green_line_y == 468
red_line_y == 1138
\* The tolerance around the start line, the literal 50 of the start test.
start_margin == 50
\* 2.23694 mph per m/s, times 100000.
mph_per_mps_e5 == 223694

\* results[0].names (line 170): the table from class id to class name.
names == (2 :> "car")
\* The class ids a row can carry (results[0].boxes.cls): one that is in the
\* names table and one that is not.
ClassIds == {2, 7}

\* An observation of one frame: one row of zip(boxes, track_ids, clss, ...).
\* A row whose class id is not in the names table comes with one x only:
\* line 176 raises before x is read.
Observations ==
    [track_id : TrackIds, x : XValues, cls : DOMAIN names]
        \cup [track_id : TrackIds, x : {red_line_y + 1}, cls : ClassIds \ DOMAIN names]
\* The value of row while no iteration has run.
NoRow == [track_id |-> 0, x |-> 0, cls |-> 0]

\* round(n / d) for n >= 0, d > 0; no tie occurs for the values used.
RoundDiv(n, d) == (2 * n + d) \div (2 * d)

\* A speed estimator that cuts the second decimal off instead of rounding.
_calculate_speed_truncating(start_time, end_time) ==
    LET time_diff == end_time - start_time
    IN  IF time_diff <= 0 THEN 0
        ELSE (distance * mph_per_mps_e5) \div (time_diff * 1000)

\* A speed estimator that clamps only a difference of exactly zero.
_calculate_speed_unclamped(start_time, end_time) ==
    LET time_diff == end_time - start_time
    IN  IF time_diff = 0 THEN 0
        ELSE IF time_diff < 0
             THEN 0 - RoundDiv(distance * mph_per_mps_e5, (0 - time_diff) * 1000)
             ELSE RoundDiv(distance * mph_per_mps_e5, time_diff * 1000)

\* A speed estimator that converts to km/h (factor 3.6) instead of mph.
_calculate_speed_kmh(start_time, end_time) ==
    LET time_diff == end_time - start_time
    IN  IF time_diff <= 0 THEN 0
        ELSE RoundDiv(distance * 360000, time_diff * 1000)

\* self._calculate_speed(start_time, end_time): times in tenths of a second,
\* result in tenths of a mph.  (distance / (time_diff / 10)) * 2.23694 * 10
\*   = distance * 223694 / (time_diff * 1000).
_calculate_speed(start_time, end_time) ==
    LET time_diff == end_time - start_time
    IN  IF time_diff <= 0 THEN 0
        ELSE RoundDiv(distance * mph_per_mps_e5, time_diff * 1000)

\* The start test with exclusive bounds.
InStartZoneExclusive(x) ==
    green_line_y - start_margin < x /\ x < green_line_y + start_margin

\* self.green_line_y - 50 <= float(x) <= self.green_line_y + 50
InStartZone(x) ==
    green_line_y - start_margin <= x /\ x <= green_line_y + start_margin

\* The end test with an inclusive bound.
BeyondEndLineInclusive(x) == x >= red_line_y

\* The end test made against the green line.
BeyondEndLineAtGreenLine(x) == x > green_line_y

\* float(x) > self.red_line_y
BeyondEndLine(x) == x > red_line_y

\* Lines 178-179: the record of the id, created empty when absent.
WithRecord(vts, id) ==
    IF id \notin DOMAIN vts THEN DictSet(vts, id, EmptyDict) ELSE vts

\* Lines 181-182 fire for observation o in store vts (record already looked up).
StartFires(vts, o) ==
    InStartZone(o.x) /\ "start" \notin DOMAIN vts[o.track_id]

\* The start time overwritten by every observation in the start zone.
AfterStartOverwriting(vts, o, now) ==
    IF InStartZone(o.x)
    THEN DictSet(vts, o.track_id, DictSet(vts[o.track_id], "start", now))
    ELSE vts

\* Lines 181-182.
AfterStart(vts, o, now) ==
    IF StartFires(vts, o)
    THEN DictSet(vts, o.track_id, DictSet(vts[o.track_id], "start", now))
    ELSE vts

\* Line 184 fires for observation o in store vts (after lines 178-182).
EndFires(vts, o) ==
    /\ BeyondEndLine(o.x)
    /\ "end" \notin DOMAIN vts[o.track_id]
    /\ "start" \in DOMAIN vts[o.track_id]

\* Lines 176 and 185-196: the event appended to response["detected_vehicles"].
DetectionEvent(vts, o, now) ==
    LET rec == DictSet(vts[o.track_id], "end", now)
    IN  [vehicle_id |-> o.track_id,
         vehicle_type |-> names[o.cls],
         speed |-> _calculate_speed(rec["start"], rec["end"])]

\* Line 199 left out: the record keeps its start and end times.
AfterEndKeepRecord(vts, o, now) ==
    DictSet(vts, o.track_id, DictSet(vts[o.track_id], "end", now))

\* Line 199 left out and the end time not stored: the record keeps its start time.
AfterEndKeepStart(vts, o, now) == vts

\* Lines 185 and 199: the end time is set and the record deleted.
AfterEnd(vts, o, now) ==
    DictDel(DictSet(vts, o.track_id, DictSet(vts[o.track_id], "end", now)), o.track_id)

InitTMS ==
    /\ vehicle_timestamps = EmptyDict
    /\ current_time = 0
    /\ frame_pc = "idle"
    /\ row = NoRow
    /\ rows_done = 0
    /\ detected_vehicles = <<>>
    /\ number_of_vehicles_detected = 0
    /\ started_in_call = {}
    /\ local_start_time = 0
    /\ crossing_open = [t \in TrackIds |-> FALSE]
    /\ replay_pc = "off"
    /\ frame_rows = <<>>
    /\ first_response = <<>>

\* A process_frame that empties the crossing store at the start of each call.
ProcessFrameBeginClearingStore(now) ==
    /\ frame_pc = "idle"
    /\ replay_pc = "off"
    /\ current_time' = now
    /\ row' = NoRow
    /\ rows_done' = 0
    /\ detected_vehicles' = <<>>
    /\ number_of_vehicles_detected' = 0
    /\ started_in_call' = {}
    /\ local_start_time' = 0
    /\ frame_pc' = "loop"
    /\ vehicle_timestamps' = EmptyDict
    /\ UNCHANGED <<crossing_open, replay_pc, frame_rows, first_response>>
    /\ UNCHANGED <<db_vars, ctor_vars, run_vars, weather_vars>>

\* process_frame up to the for loop (lines 138-172): the response is created
\* empty and the clock is read.
ProcessFrameBegin(now) ==
    /\ frame_pc = "idle"
    /\ replay_pc = "off"
    /\ current_time' = now
    /\ row' = NoRow
    /\ rows_done' = 0
    /\ detected_vehicles' = <<>>
    /\ number_of_vehicles_detected' = 0
    /\ started_in_call' = {}
    /\ local_start_time' = 0
    /\ frame_pc' = "loop"
    /\ UNCHANGED <<vehicle_timestamps, crossing_open, replay_pc, frame_rows, first_response>>
    /\ UNCHANGED <<db_vars, ctor_vars, run_vars, weather_vars>>

\* process_frame up to the for loop, called by a caller that keeps the frame
\* to pass it a second time: the rows the tracker reports for it are kept in
\* frame_rows as the loop takes them.
ReplayFirstCall(now) ==
    /\ frame_pc = "idle"
    /\ replay_pc = "off"
    /\ current_time' = now
    /\ row' = NoRow
    /\ rows_done' = 0
    /\ detected_vehicles' = <<>>
    /\ number_of_vehicles_detected' = 0
    /\ started_in_call' = {}
    /\ local_start_time' = 0
    /\ frame_pc' = "loop"
    /\ replay_pc' = "first"
    /\ frame_rows' = <<>>
    /\ first_response' = <<>>
    /\ UNCHANGED <<vehicle_timestamps, crossing_open>>
    /\ UNCHANGED <<db_vars, ctor_vars, run_vars, weather_vars>>

\* process_frame up to the for loop, called again with the frame of the call
\* that has just returned: the tracker reports the rows of frame_rows again.
ReplaySecondCall(now) ==
    /\ frame_pc = "idle"
    /\ replay_pc = "between"
    /\ current_time' = now
    /\ row' = NoRow
    /\ rows_done' = 0
    /\ detected_vehicles' = <<>>
    /\ number_of_vehicles_detected' = 0
    /\ started_in_call' = {}
    /\ local_start_time' = 0
    /\ frame_pc' = "loop"
    /\ replay_pc' = "again"
    /\ UNCHANGED <<vehicle_timestamps, crossing_open, frame_rows, first_response>>
    /\ UNCHANGED <<db_vars, ctor_vars, run_vars, weather_vars>>

\* One iteration of the for loop (lines 174-199) on the next row o of the
\* tracker's result.  names[cls] of line 176 raises KeyError for a class id
\* that is not in the names table, before anything else of the iteration runs.
ProcessObservation(o) ==
    /\ frame_pc = "loop"
    /\ rows_done < MaxObs
    /\ replay_pc = "again" => (rows_done < Len(frame_rows) /\ o = frame_rows[rows_done + 1])
    /\ row' = o
    /\ rows_done' = rows_done + 1
    /\ frame_rows' = IF replay_pc = "first" THEN Append(frame_rows, o) ELSE frame_rows
    /\ IF o.cls \notin DOMAIN names
       THEN /\ frame_pc' = "raised"
            /\ UNCHANGED <<vehicle_timestamps, detected_vehicles, started_in_call,
                           local_start_time, crossing_open>>
       ELSE /\ frame_pc' = "loop"
            /\ LET vts1 == WithRecord(vehicle_timestamps, o.track_id)
                   started == StartFires(vts1, o)
                   vts2 == AfterStart(vts1, o, current_time)
                   ended == EndFires(vts2, o)
               IN  /\ vehicle_timestamps' =
                        IF ended THEN AfterEnd(vts2, o, current_time) ELSE vts2
                   /\ detected_vehicles' =
                        IF ended
                        THEN Append(detected_vehicles, DetectionEvent(vts2, o, current_time))
                        ELSE detected_vehicles
                   /\ local_start_time' =
                        IF ended THEN vts2[o.track_id]["start"] ELSE local_start_time
                   /\ crossing_open' =
                        [crossing_open EXCEPT ![o.track_id] =
                            IF ended THEN FALSE ELSE (started \/ @)]
                   /\ started_in_call' =
                        IF started THEN started_in_call \cup {o.track_id} ELSE started_in_call
    /\ UNCHANGED <<current_time, number_of_vehicles_detected, replay_pc, first_response>>
    /\ UNCHANGED <<db_vars, ctor_vars, run_vars, weather_vars>>

\* The KeyError of line 176 leaves process_frame: no response is returned,
\* the locals of the call are gone, and a caller that was passing the frame
\* twice has no response to compare.
ProcessFrameRaise ==
    /\ frame_pc = "raised"
    /\ frame_pc' = "idle"
    /\ row' = NoRow
    /\ rows_done' = 0
    /\ detected_vehicles' = <<>>
    /\ number_of_vehicles_detected' = 0
    /\ started_in_call' = {}
    /\ local_start_time' = 0
    /\ replay_pc' = "off"
    /\ frame_rows' = <<>>
    /\ first_response' = <<>>
    /\ UNCHANGED <<vehicle_timestamps, current_time, crossing_open>>
    /\ UNCHANGED <<db_vars, ctor_vars, run_vars, weather_vars>>

\* A return that also drops the records that have no start time yet.
ProcessFrameReturnDroppingEmpty ==
    /\ frame_pc = "loop"
    /\ replay_pc = "again" => rows_done = Len(frame_rows)
    /\ frame_pc' = "idle"
    /\ row' = NoRow
    /\ rows_done' = 0
    /\ detected_vehicles' = <<>>
    /\ number_of_vehicles_detected' = 0
    /\ started_in_call' = {}
    /\ local_start_time' = 0
    /\ replay_pc' = IF replay_pc = "first" THEN "between" ELSE "off"
    /\ frame_rows' = IF replay_pc = "first" THEN frame_rows ELSE <<>>
    /\ first_response' = IF replay_pc = "first" THEN detected_vehicles ELSE <<>>
    /\ vehicle_timestamps' =
          [t \in {u \in DOMAIN vehicle_timestamps :
                     "start" \in DOMAIN vehicle_timestamps[u]} |-> vehicle_timestamps[t]]
    /\ UNCHANGED <<current_time, crossing_open>>
    /\ UNCHANGED <<db_vars, ctor_vars, run_vars, weather_vars>>

\* The tracker's rows are used up and the response is returned (lines
\* 201-208); the locals of the call are gone.  The caller that passes the
\* frame twice keeps the first response and drops both after the second call.
ProcessFrameReturn ==
    /\ frame_pc = "loop"
    /\ replay_pc = "again" => rows_done = Len(frame_rows)
    /\ frame_pc' = "idle"
    /\ row' = NoRow
    /\ rows_done' = 0
    /\ detected_vehicles' = <<>>
    /\ number_of_vehicles_detected' = 0
    /\ started_in_call' = {}
    /\ local_start_time' = 0
    /\ replay_pc' = IF replay_pc = "first" THEN "between" ELSE "off"
    /\ frame_rows' = IF replay_pc = "first" THEN frame_rows ELSE <<>>
    /\ first_response' = IF replay_pc = "first" THEN detected_vehicles ELSE <<>>
    /\ UNCHANGED <<vehicle_timestamps, current_time, crossing_open>>
    /\ UNCHANGED <<db_vars, ctor_vars, run_vars, weather_vars>>

(***************************************************************************)
(* DatabaseManager                                                         *)
(*                                                                         *)
(* worker_pc: "check" (line 48), "get" (line 52, inside Queue.get),         *)
(* "insert" (line 55, insert_one not yet called), "inserting" (inside       *)
(* insert_one), "task_done" (line 58), "exited" (the loop was left),        *)
(* "crashed" (insert_one raised: only Empty is caught, the thread is dead). *)
(* shutdown_pc: "idle" (not called), "join_thread" (line 84),               *)
(* "join_queue" (line 87), "close" (line 90), "returned".                   *)
(***************************************************************************)
\* The environment variables __init__ reads, in the order it reads them.
EnvOrder == <<"MONGODB_CONNECTION_STRING", "MONGODB_DATABASE_NAME",
              "MONGODB_COLLECTION_NAME">>
EnvNames == {EnvOrder[i] : i \in DOMAIN EnvOrder}
\* What os.getenv can return: None for a variable that is not set, the
\* empty string, or a value.
EnvValues == {"None", "", "value"}
\* not self.connection_string (lines 22, 25, 28): None and "" are falsy.
IsMissing(v) == v = "None" \/ v = ""
\* The position in EnvOrder of the first variable that fails its test; 0
\* when none does.
FirstMissing(env) ==
    IF \E i \in DOMAIN EnvOrder : IsMissing(env[EnvOrder[i]])
    THEN CHOOSE i \in DOMAIN EnvOrder :
            /\ IsMissing(env[EnvOrder[i]])
            /\ \A j \in DOMAIN EnvOrder : j < i => ~IsMissing(env[EnvOrder[j]])
    ELSE 0
\* The attributes before __init__ has assigned them.
NoConfig == [n \in EnvNames |-> "None"]

\* The state after a DatabaseManager has been constructed from an
\* environment that holds all three values.
InitDB ==
    /\ environ = [n \in EnvNames |-> "value"]
    /\ manager_pc = "constructed"
    /\ error_variable = "none"
    /\ client_created = TRUE
    /\ queue_created = TRUE
    /\ manager_config = [n \in EnvNames |-> "value"]
    /\ put_after_failure = FALSE
    /\ put_after_exit = FALSE
    /\ db_queue = <<>>
    /\ unfinished_tasks = 0
    /\ terminate_worker = FALSE
    /\ worker_pc = "check"
    /\ vehicle_doc = "none"
    /\ client_closed = FALSE
    /\ shutdown_pc = "idle"
    /\ enqueued = <<>>
    /\ insert_calls = <<>>
    /\ stored = <<>>
    /\ puts_before_shutdown = 0
    /\ worker_pc_at_flag = "unset"
    /\ queue_at_flag = <<>>
    /\ insert_calls_at_flag = 0
    /\ gets_after_flag = 0
    /\ put_during_insert = FALSE

\* The state before DatabaseManager() is called, in any environment.
InitUnconstructed ==
    /\ environ \in [EnvNames -> EnvValues]
    /\ manager_pc = "new"
    /\ error_variable = "none"
    /\ client_created = FALSE
    /\ queue_created = FALSE
    /\ manager_config = NoConfig
    /\ put_after_failure = FALSE
    /\ put_after_exit = FALSE
    /\ db_queue = <<>>
    /\ unfinished_tasks = 0
    /\ terminate_worker = FALSE
    /\ worker_pc = "not_started"
    /\ vehicle_doc = "none"
    /\ client_closed = FALSE
    /\ shutdown_pc = "idle"
    /\ enqueued = <<>>
    /\ insert_calls = <<>>
    /\ stored = <<>>
    /\ puts_before_shutdown = 0
    /\ worker_pc_at_flag = "unset"
    /\ queue_at_flag = <<>>
    /\ insert_calls_at_flag = 0
    /\ gets_after_flag = 0
    /\ put_during_insert = FALSE

\* A constructor that puts a default in the place of a missing value.
ConstructWithDefaults ==
    /\ manager_pc = "new"
    /\ manager_config' = [n \in EnvNames |->
                             IF IsMissing(environ[n]) THEN "default" ELSE environ[n]]
    /\ manager_pc' = "constructed"
    /\ client_created' = TRUE
    /\ queue_created' = TRUE
    /\ worker_pc' = "check"
    /\ UNCHANGED <<environ, error_variable>>
    /\ UNCHANGED <<db_queue, unfinished_tasks, terminate_worker, vehicle_doc,
                   client_closed, shutdown_pc, enqueued, insert_calls, stored,
                   puts_before_shutdown, worker_pc_at_flag,
                   queue_at_flag, insert_calls_at_flag, gets_after_flag, put_during_insert,
                   put_after_failure, put_after_exit>>
    /\ UNCHANGED <<tms_vars, run_vars, weather_vars>>

\* DatabaseManager() (lines 16-44): the three values are read and tested in
\* order, the first that is None or empty raises ValueError; otherwise the
\* client, the queue and the worker thread are created.
Construct ==
    /\ manager_pc = "new"
    /\ LET k == FirstMissing(environ)
       IN  IF k = 0
           THEN /\ manager_config' = environ
                /\ manager_pc' = "constructed"
                /\ client_created' = TRUE
                /\ queue_created' = TRUE
                /\ worker_pc' = "check"
                /\ UNCHANGED error_variable
           ELSE /\ manager_config' =
                      [n \in EnvNames |->
                          IF \E i \in 1 .. k : EnvOrder[i] = n THEN environ[n] ELSE "None"]
                /\ manager_pc' = "ValueError"
                /\ error_variable' = EnvOrder[k]
                /\ UNCHANGED <<client_created, queue_created, worker_pc>>
    /\ UNCHANGED environ
    /\ UNCHANGED <<db_queue, unfinished_tasks, terminate_worker, vehicle_doc,
                   client_closed, shutdown_pc, enqueued, insert_calls, stored,
                   puts_before_shutdown, worker_pc_at_flag,
                   queue_at_flag, insert_calls_at_flag, gets_after_flag, put_during_insert,
                   put_after_failure, put_after_exit>>
    /\ UNCHANGED <<tms_vars, run_vars, weather_vars>>

\* add_vehicle that waits until no store write is in progress.
AddVehicleWaitingForStore(doc) ==
    /\ manager_pc = "constructed"
    /\ Len(enqueued) < MaxEvents
    /\ worker_pc # "inserting"
    /\ db_queue' = Append(db_queue, doc)
    /\ unfinished_tasks' = unfinished_tasks + 1
    /\ enqueued' = Append(enqueued, doc)
    /\ put_during_insert' = put_during_insert
    /\ put_after_failure' = (put_after_failure \/ worker_pc = "crashed")
    /\ put_after_exit' = (put_after_exit \/ worker_pc = "exited")
    /\ UNCHANGED <<terminate_worker, worker_pc, vehicle_doc, client_closed, shutdown_pc,
                   insert_calls, stored, puts_before_shutdown, worker_pc_at_flag,
                   queue_at_flag, insert_calls_at_flag, gets_after_flag>>
    /\ UNCHANGED <<tms_vars, ctor_vars, run_vars, weather_vars>>

\* add_vehicle that starts a new worker thread when the old one has ended.
AddVehicleRestartingWorker(doc) ==
    /\ manager_pc = "constructed"
    /\ Len(enqueued) < MaxEvents
    /\ db_queue' = Append(db_queue, doc)
    /\ unfinished_tasks' = unfinished_tasks + 1
    /\ enqueued' = Append(enqueued, doc)
    /\ put_during_insert' = (put_during_insert \/ worker_pc = "inserting")
    /\ put_after_failure' = (put_after_failure \/ worker_pc = "crashed")
    /\ put_after_exit' = (put_after_exit \/ worker_pc = "exited")
    /\ worker_pc' = IF worker_pc = "exited" THEN "get" ELSE worker_pc
    /\ UNCHANGED <<terminate_worker, vehicle_doc, client_closed, shutdown_pc,
                   insert_calls, stored, puts_before_shutdown, worker_pc_at_flag,
                   queue_at_flag, insert_calls_at_flag, gets_after_flag>>
    /\ UNCHANGED <<tms_vars, ctor_vars, run_vars, weather_vars>>

\* add_vehicle (line 71): Queue.put on an unbounded queue.
AddVehicle(doc) ==
    /\ manager_pc = "constructed"
    /\ Len(enqueued) < MaxEvents
    /\ db_queue' = Append(db_queue, doc)
    /\ unfinished_tasks' = unfinished_tasks + 1
    /\ enqueued' = Append(enqueued, doc)
    /\ put_during_insert' = (put_during_insert \/ worker_pc = "inserting")
    /\ put_after_failure' = (put_after_failure \/ worker_pc = "crashed")
    /\ put_after_exit' = (put_after_exit \/ worker_pc = "exited")
    /\ UNCHANGED <<terminate_worker, worker_pc, vehicle_doc, client_closed, shutdown_pc,
                   insert_calls, stored, puts_before_shutdown, worker_pc_at_flag,
                   queue_at_flag, insert_calls_at_flag, gets_after_flag>>
    /\ UNCHANGED <<tms_vars, ctor_vars, run_vars, weather_vars>>

\* A loop test that leaves only when the flag is set and the queue is empty.
WorkerCheckDraining ==
    /\ worker_pc = "check"
    /\ worker_pc' = IF terminate_worker /\ db_queue = <<>> THEN "exited" ELSE "get"
    /\ UNCHANGED <<db_queue, unfinished_tasks, terminate_worker, vehicle_doc,
                   client_closed, shutdown_pc, enqueued, insert_calls, stored,
                   puts_before_shutdown, worker_pc_at_flag,
                   queue_at_flag, insert_calls_at_flag, gets_after_flag, put_during_insert,
                   put_after_failure, put_after_exit>>
    /\ UNCHANGED <<tms_vars, ctor_vars, run_vars, weather_vars>>

\* while not self.terminate_worker (line 48).
WorkerCheck ==
    /\ worker_pc = "check"
    /\ worker_pc' = IF terminate_worker THEN "exited" ELSE "get"
    /\ UNCHANGED <<db_queue, unfinished_tasks, terminate_worker, vehicle_doc,
                   client_closed, shutdown_pc, enqueued, insert_calls, stored,
                   puts_before_shutdown, worker_pc_at_flag,
                   queue_at_flag, insert_calls_at_flag, gets_after_flag, put_during_insert,
                   put_after_failure, put_after_exit>>
    /\ UNCHANGED <<tms_vars, ctor_vars, run_vars, weather_vars>>

\* A get that takes the newest item instead of the oldest.
WorkerGetNewest ==
    /\ worker_pc = "get"
    /\ db_queue # <<>>
    /\ vehicle_doc' = db_queue[Len(db_queue)]
    /\ db_queue' = SubSeq(db_queue, 1, Len(db_queue) - 1)
    /\ worker_pc' = "insert"
    /\ gets_after_flag' = IF shutdown_pc # "idle" THEN gets_after_flag + 1 ELSE gets_after_flag
    /\ UNCHANGED <<unfinished_tasks, terminate_worker, client_closed, shutdown_pc,
                   enqueued, insert_calls, stored, puts_before_shutdown,
                   worker_pc_at_flag,
                   queue_at_flag, insert_calls_at_flag, put_during_insert,
                   put_after_failure, put_after_exit>>
    /\ UNCHANGED <<tms_vars, ctor_vars, run_vars, weather_vars>>

\* self.db_queue.get(timeout=1.0) returns the oldest item (line 52).
WorkerGet ==
    /\ worker_pc = "get"
    /\ db_queue # <<>>
    /\ vehicle_doc' = Head(db_queue)
    /\ db_queue' = Tail(db_queue)
    /\ worker_pc' = "insert"
    /\ gets_after_flag' = IF shutdown_pc # "idle" THEN gets_after_flag + 1 ELSE gets_after_flag
    /\ UNCHANGED <<unfinished_tasks, terminate_worker, client_closed, shutdown_pc,
                   enqueued, insert_calls, stored, puts_before_shutdown,
                   worker_pc_at_flag,
                   queue_at_flag, insert_calls_at_flag, put_during_insert,
                   put_after_failure, put_after_exit>>
    /\ UNCHANGED <<tms_vars, ctor_vars, run_vars, weather_vars>>

\* A timed-out get that is repeated without going back to the loop test.
WorkerGetTimeoutRetrying ==
    /\ worker_pc = "get"
    /\ db_queue = <<>>
    /\ worker_pc' = "get"
    /\ gets_after_flag' = gets_after_flag
    /\ UNCHANGED <<db_queue, unfinished_tasks, terminate_worker, vehicle_doc,
                   client_closed, shutdown_pc, enqueued, insert_calls, stored,
                   puts_before_shutdown, worker_pc_at_flag,
                   queue_at_flag, insert_calls_at_flag, put_during_insert,
                   put_after_failure, put_after_exit>>
    /\ UNCHANGED <<tms_vars, ctor_vars, run_vars, weather_vars>>

\* The get times out on an empty queue: Empty is caught, continue (lines 59-61).
WorkerGetTimeout ==
    /\ worker_pc = "get"
    /\ db_queue = <<>>
    /\ worker_pc' = "check"
    /\ gets_after_flag' = IF shutdown_pc # "idle" THEN gets_after_flag + 1 ELSE gets_after_flag
    /\ UNCHANGED <<db_queue, unfinished_tasks, terminate_worker, vehicle_doc,
                   client_closed, shutdown_pc, enqueued, insert_calls, stored,
                   puts_before_shutdown, worker_pc_at_flag,
                   queue_at_flag, insert_calls_at_flag, put_during_insert,
                   put_after_failure, put_after_exit>>
    /\ UNCHANGED <<tms_vars, ctor_vars, run_vars, weather_vars>>

\* self.collection.insert_one(vehicle_doc) is called (line 55).
WorkerInsertCall ==
    /\ worker_pc = "insert"
    /\ insert_calls' = Append(insert_calls, vehicle_doc)
    /\ worker_pc' = "inserting"
    /\ UNCHANGED <<db_queue, unfinished_tasks, terminate_worker, vehicle_doc,
                   client_closed, shutdown_pc, enqueued, stored,
                   puts_before_shutdown, worker_pc_at_flag,
                   queue_at_flag, insert_calls_at_flag, gets_after_flag, put_during_insert,
                   put_after_failure, put_after_exit>>
    /\ UNCHANGED <<tms_vars, ctor_vars, run_vars, weather_vars>>

\* A write that the termination flag interrupts.
WorkerInsertInterruptible ==
    /\ worker_pc = "inserting"
    /\ IF terminate_worker
       THEN worker_pc' = "exited" /\ stored' = stored
       ELSE worker_pc' = "task_done" /\ stored' = Append(stored, vehicle_doc)
    /\ UNCHANGED <<db_queue, unfinished_tasks, terminate_worker, vehicle_doc,
                   client_closed, shutdown_pc, enqueued, insert_calls,
                   puts_before_shutdown, worker_pc_at_flag,
                   queue_at_flag, insert_calls_at_flag, gets_after_flag, put_during_insert,
                   put_after_failure, put_after_exit>>
    /\ UNCHANGED <<tms_vars, ctor_vars, run_vars, weather_vars>>

\* insert_one returns: the document is in the store (line 55).
WorkerInsertReturn ==
    /\ worker_pc = "inserting"
    /\ stored' = Append(stored, vehicle_doc)
    /\ worker_pc' = "task_done"
    /\ UNCHANGED <<db_queue, unfinished_tasks, terminate_worker, vehicle_doc,
                   client_closed, shutdown_pc, enqueued, insert_calls,
                   puts_before_shutdown, worker_pc_at_flag,
                   queue_at_flag, insert_calls_at_flag, gets_after_flag, put_during_insert,
                   put_after_failure, put_after_exit>>
    /\ UNCHANGED <<tms_vars, ctor_vars, run_vars, weather_vars>>

\* A worker that catches the exception of insert_one and calls it again.
WorkerInsertRaiseRetrying ==
    /\ worker_pc = "inserting"
    /\ worker_pc' = "insert"
    /\ UNCHANGED <<db_queue, unfinished_tasks, terminate_worker, vehicle_doc,
                   client_closed, shutdown_pc, enqueued, insert_calls, stored,
                   puts_before_shutdown, worker_pc_at_flag,
                   queue_at_flag, insert_calls_at_flag, gets_after_flag, put_during_insert,
                   put_after_failure, put_after_exit>>
    /\ UNCHANGED <<tms_vars, ctor_vars, run_vars, weather_vars>>

\* insert_one raises: the except clause catches Empty only, so the exception
\* ends the thread (lines 49-61).
WorkerInsertRaise ==
    /\ worker_pc = "inserting"
    /\ worker_pc' = "crashed"
    /\ UNCHANGED <<db_queue, unfinished_tasks, terminate_worker, vehicle_doc,
                   client_closed, shutdown_pc, enqueued, insert_calls, stored,
                   puts_before_shutdown, worker_pc_at_flag,
                   queue_at_flag, insert_calls_at_flag, gets_after_flag, put_during_insert,
                   put_after_failure, put_after_exit>>
    /\ UNCHANGED <<tms_vars, ctor_vars, run_vars, weather_vars>>

\* A task_done after which the worker also empties the crossing store.
WorkerTaskDoneClearingStore ==
    /\ worker_pc = "task_done"
    /\ unfinished_tasks' = unfinished_tasks - 1
    /\ worker_pc' = "check"
    /\ vehicle_timestamps' = EmptyDict
    /\ UNCHANGED <<db_queue, terminate_worker, vehicle_doc, client_closed, shutdown_pc,
                   enqueued, insert_calls, stored, puts_before_shutdown,
                   worker_pc_at_flag,
                   queue_at_flag, insert_calls_at_flag, gets_after_flag, put_during_insert,
                   put_after_failure, put_after_exit>>
    /\ UNCHANGED <<current_time, frame_pc, row, rows_done, detected_vehicles,
                   number_of_vehicles_detected, started_in_call, local_start_time, crossing_open,
                   replay_pc, frame_rows, first_response>>
    /\ UNCHANGED <<ctor_vars, run_vars, weather_vars>>

\* self.db_queue.task_done() (line 58).
WorkerTaskDone ==
    /\ worker_pc = "task_done"
    /\ unfinished_tasks' = unfinished_tasks - 1
    /\ worker_pc' = "check"
    /\ UNCHANGED <<db_queue, terminate_worker, vehicle_doc, client_closed, shutdown_pc,
                   enqueued, insert_calls, stored, puts_before_shutdown,
                   worker_pc_at_flag,
                   queue_at_flag, insert_calls_at_flag, gets_after_flag, put_during_insert,
                   put_after_failure, put_after_exit>>
    /\ UNCHANGED <<tms_vars, ctor_vars, run_vars, weather_vars>>

\* shutdown() is called: self.terminate_worker = True (line 81).
ShutdownSetFlag ==
    /\ manager_pc = "constructed"
    /\ shutdown_pc = "idle"
    /\ terminate_worker' = TRUE
    /\ puts_before_shutdown' = Len(enqueued)
    /\ worker_pc_at_flag' = worker_pc
    /\ queue_at_flag' = db_queue
    /\ insert_calls_at_flag' = Len(insert_calls)
    /\ gets_after_flag' = 0
    /\ shutdown_pc' = "join_thread"
    /\ UNCHANGED <<db_queue, unfinished_tasks, worker_pc, vehicle_doc, client_closed,
                   enqueued, insert_calls, stored, put_during_insert,
                   put_after_failure, put_after_exit>>
    /\ UNCHANGED <<tms_vars, ctor_vars, run_vars, weather_vars>>

\* self.db_thread.join(timeout=timeout) returns because the thread has ended (line 84).
ShutdownJoinThread ==
    /\ shutdown_pc = "join_thread"
    /\ worker_pc \in {"exited", "crashed"}
    /\ shutdown_pc' = "join_queue"
    /\ UNCHANGED <<db_queue, unfinished_tasks, terminate_worker, worker_pc, vehicle_doc,
                   client_closed, enqueued, insert_calls, stored,
                   puts_before_shutdown, worker_pc_at_flag,
                   queue_at_flag, insert_calls_at_flag, gets_after_flag, put_during_insert,
                   put_after_failure, put_after_exit>>
    /\ UNCHANGED <<tms_vars, ctor_vars, run_vars, weather_vars>>

\* self.db_thread.join(timeout=timeout) returns because the timeout has passed
\* while the thread is still running (line 84).
ShutdownJoinThreadTimeout ==
    /\ shutdown_pc = "join_thread"
    /\ worker_pc \notin {"exited", "crashed"}
    /\ shutdown_pc' = "join_queue"
    /\ UNCHANGED <<db_queue, unfinished_tasks, terminate_worker, worker_pc, vehicle_doc,
                   client_closed, enqueued, insert_calls, stored,
                   puts_before_shutdown, worker_pc_at_flag,
                   queue_at_flag, insert_calls_at_flag, gets_after_flag, put_during_insert,
                   put_after_failure, put_after_exit>>
    /\ UNCHANGED <<tms_vars, ctor_vars, run_vars, weather_vars>>

\* A queue join that does not wait.
ShutdownJoinQueueNoWait ==
    /\ shutdown_pc = "join_queue"
    /\ shutdown_pc' = "close"
    /\ UNCHANGED <<db_queue, unfinished_tasks, terminate_worker, worker_pc, vehicle_doc,
                   client_closed, enqueued, insert_calls, stored,
                   puts_before_shutdown, worker_pc_at_flag,
                   queue_at_flag, insert_calls_at_flag, gets_after_flag, put_during_insert,
                   put_after_failure, put_after_exit>>
    /\ UNCHANGED <<tms_vars, ctor_vars, run_vars, weather_vars>>

\* self.db_queue.join() returns once unfinished_tasks is 0 (line 87).
ShutdownJoinQueue ==
    /\ shutdown_pc = "join_queue"
    /\ unfinished_tasks = 0
    /\ shutdown_pc' = "close"
    /\ UNCHANGED <<db_queue, unfinished_tasks, terminate_worker, worker_pc, vehicle_doc,
                   client_closed, enqueued, insert_calls, stored,
                   puts_before_shutdown, worker_pc_at_flag,
                   queue_at_flag, insert_calls_at_flag, gets_after_flag, put_during_insert,
                   put_after_failure, put_after_exit>>
    /\ UNCHANGED <<tms_vars, ctor_vars, run_vars, weather_vars>>

\* self.client.close() and the return of shutdown() (line 90).
ShutdownClose ==
    /\ shutdown_pc = "close"
    /\ client_closed' = TRUE
    /\ shutdown_pc' = "returned"
    /\ UNCHANGED <<db_queue, unfinished_tasks, terminate_worker, worker_pc, vehicle_doc,
                   enqueued, insert_calls, stored, puts_before_shutdown,
                   worker_pc_at_flag,
                   queue_at_flag, insert_calls_at_flag, gets_after_flag, put_during_insert,
                   put_after_failure, put_after_exit>>
    /\ UNCHANGED <<tms_vars, ctor_vars, run_vars, weather_vars>>

(***************************************************************************)
(* run.py                                                                  *)
(***************************************************************************)
\* end_time = time(19, 00), in minutes since midnight.
script_end_time == 1140

SeqsUpTo(S, n) == UNION {[1 .. k -> S] : k \in 0 .. n}
\* The entries of result["detected_vehicles"]: the events of process_frame.
RunVehicles == [vehicle_id : {1}, vehicle_type : VehicleTypes, speed : {254}]
\* The results process_video hands to the callback.
RunResults == [detected_vehicles : SeqsUpTo(RunVehicles, MaxObs),
               weather_condition : Weathers]
\* The value of result while no call has got past the end_time test.
NoResult == [detected_vehicles |-> <<>>, weather_condition |-> "Unknown"]

\* Lines 69-75: the document built for one entry of detected_vehicles.
VehicleDocOf(vehicle, res) ==
    [vehicle_type |-> vehicle.vehicle_type,
     speed |-> vehicle.speed,
     weather_condition |-> res.weather_condition]

\* The documents of one result, in the order of the for loop (line 67).
DocsOf(res) ==
    [i \in 1 .. Len(res.detected_vehicles) |-> VehicleDocOf(res.detected_vehicles[i], res)]

\* Statistics that count each result once instead of each vehicle.
RECURSIVE CountVehiclesOncePerResult(_, _)
CountVehiclesOncePerResult(stats, vehicles) ==
    IF vehicles = <<>> THEN stats
    ELSE LET t == Head(vehicles).vehicle_type
             by_type == stats.vehicles_by_type
         IN  [stats EXCEPT
                !.total_vehicles = @ + 1,
                !.vehicles_by_type =
                    IF t \in DOMAIN by_type THEN DictSet(by_type, t, by_type[t] + 1)
                    ELSE DictSet(by_type, t, 1)]

\* Lines 78-83, once per entry of detected_vehicles.
RECURSIVE CountVehicles(_, _)
CountVehicles(stats, vehicles) ==
    IF vehicles = <<>> THEN stats
    ELSE LET t == Head(vehicles).vehicle_type
             by_type == stats.vehicles_by_type
         IN  CountVehicles(
                [stats EXCEPT
                    !.total_vehicles = @ + 1,
                    !.vehicles_by_type =
                        IF t \in DOMAIN by_type THEN DictSet(by_type, t, by_type[t] + 1)
                        ELSE DictSet(by_type, t, 1)],
                Tail(vehicles))

InitRun ==
    /\ run_pc = "process_video"
    /\ session_stats = [total_vehicles |-> 0, vehicles_by_type |-> EmptyDict,
                        last_weather |-> "Unknown"]
    /\ result = NoResult
    /\ callback_time = 0
    /\ exit_called = FALSE

\* A result_callback that lets the call made exactly at end_time through.
ResultCallbackExitAfterEndTime(res, tod) ==
    /\ run_pc = "process_video"
    /\ tod > script_end_time \/ Len(enqueued) + Len(res.detected_vehicles) <= MaxRunEvents
    /\ callback_time' = tod
    /\ IF tod > script_end_time
       THEN /\ exit_called' = TRUE
            /\ run_pc' = "finally"
            /\ UNCHANGED <<session_stats, result, db_queue, unfinished_tasks, enqueued>>
       ELSE /\ session_stats' =
                  CountVehicles([session_stats EXCEPT !.last_weather = res.weather_condition],
                                res.detected_vehicles)
            /\ db_queue' = db_queue \o DocsOf(res)
            /\ unfinished_tasks' = unfinished_tasks + Len(res.detected_vehicles)
            /\ enqueued' = enqueued \o DocsOf(res)
            /\ result' = res
            /\ UNCHANGED <<exit_called, run_pc>>
    /\ UNCHANGED <<terminate_worker, worker_pc, vehicle_doc, client_closed, shutdown_pc,
                   insert_calls, stored, puts_before_shutdown, worker_pc_at_flag,
                   queue_at_flag, insert_calls_at_flag, gets_after_flag,
                   put_during_insert, put_after_failure, put_after_exit>>
    /\ UNCHANGED <<tms_vars, ctor_vars, weather_vars>>

\* result_callback(result) called by process_video at time of day tod (lines
\* 55-109): at or after end_time it calls exit(0), whose SystemExit leaves
\* process_video for the finally block; before end_time it stores the
\* weather and, for each detected vehicle in list order, counts it and puts
\* its document on the queue.
ResultCallback(res, tod) ==
    /\ run_pc = "process_video"
    /\ tod >= script_end_time \/ Len(enqueued) + Len(res.detected_vehicles) <= MaxRunEvents
    /\ callback_time' = tod
    /\ IF tod >= script_end_time
       THEN /\ exit_called' = TRUE
            /\ run_pc' = "finally"
            /\ UNCHANGED <<session_stats, result, db_queue, unfinished_tasks, enqueued>>
       ELSE /\ session_stats' =
                  CountVehicles([session_stats EXCEPT !.last_weather = res.weather_condition],
                                res.detected_vehicles)
            /\ db_queue' = db_queue \o DocsOf(res)
            /\ unfinished_tasks' = unfinished_tasks + Len(res.detected_vehicles)
            /\ enqueued' = enqueued \o DocsOf(res)
            /\ result' = res
            /\ UNCHANGED <<exit_called, run_pc>>
    /\ UNCHANGED <<terminate_worker, worker_pc, vehicle_doc, client_closed, shutdown_pc,
                   insert_calls, stored, puts_before_shutdown, worker_pc_at_flag,
                   queue_at_flag, insert_calls_at_flag, gets_after_flag,
                   put_during_insert, put_after_failure, put_after_exit>>
    /\ UNCHANGED <<tms_vars, ctor_vars, weather_vars>>

\* process_video (line 113) returns, the stream having ended or 'q' having
\* been pressed, or is left by an exception other than SystemExit.
ProcessVideoEnds ==
    /\ run_pc = "process_video"
    /\ run_pc' = "finally"
    /\ UNCHANGED <<session_stats, result, callback_time, exit_called>>
    /\ UNCHANGED <<db_vars, tms_vars, ctor_vars, weather_vars>>

\* terminate_worker = True (line 116).
FinallySetFlag ==
    /\ run_pc = "finally"
    /\ terminate_worker' = TRUE
    /\ run_pc' = "join_thread"
    /\ UNCHANGED <<session_stats, result, callback_time, exit_called>>
    /\ UNCHANGED <<db_queue, unfinished_tasks, worker_pc, vehicle_doc, client_closed,
                   shutdown_pc, enqueued, insert_calls, stored, puts_before_shutdown,
                   worker_pc_at_flag,
                   queue_at_flag, insert_calls_at_flag, gets_after_flag, put_during_insert, put_after_failure, put_after_exit>>
    /\ UNCHANGED <<tms_vars, ctor_vars, weather_vars>>

\* db_thread.join(timeout=5.0) returns because the thread has ended (line 117).
FinallyJoinThread ==
    /\ run_pc = "join_thread"
    /\ worker_pc \in {"exited", "crashed"}
    /\ run_pc' = "join_queue"
    /\ UNCHANGED <<session_stats, result, callback_time, exit_called>>
    /\ UNCHANGED <<db_vars, tms_vars, ctor_vars, weather_vars>>

\* db_thread.join(timeout=5.0) returns because 5 seconds have passed (line 117).
FinallyJoinThreadTimeout ==
    /\ run_pc = "join_thread"
    /\ worker_pc \notin {"exited", "crashed"}
    /\ run_pc' = "join_queue"
    /\ UNCHANGED <<session_stats, result, callback_time, exit_called>>
    /\ UNCHANGED <<db_vars, tms_vars, ctor_vars, weather_vars>>

\* db_queue.join() returns once unfinished_tasks is 0 (line 120); the script ends.
FinallyJoinQueue ==
    /\ run_pc = "join_queue"
    /\ unfinished_tasks = 0
    /\ run_pc' = "ended"
    /\ UNCHANGED <<session_stats, result, callback_time, exit_called>>
    /\ UNCHANGED <<db_vars, tms_vars, ctor_vars, weather_vars>>

(***************************************************************************)
(* TrafficMonitoringSystem._get_weather_condition                          *)
(*                                                                         *)
(* process_frame calls it on line 138 and stores what it returns in        *)
(* response["weather_condition"]; nothing of the crossing logic reads it,  *)
(* and it reads the clock by itself (line 40).  Clock readings are in      *)
(* seconds here and, as for process_frame, may go backwards.               *)
(***************************************************************************)
\* self.weather_update_interval = 600 (line 35).
weather_update_interval == 600

\* "last_updated": None (line 34).
NoneTime == -1

\* os.getenv("WEATHER_API_KEY") (line 32).
ApiKeys == {"None", "", "value"}

\* The readings of time.time() on line 40.
WeatherTimes == {0, 1, 600, 601, 1201, 1202}

\* What requests.get and response.json() (lines 51-52) can produce: a 200
\* with a payload that has data['weather'][0]['main'], a 200 whose payload
\* lacks it, another status with or without a message, or an exception.
ServiceReplies ==
    [kind : {"json"}, status_code : {200}, main : Weathers, message : {"None"}]
        \cup [kind : {"json"}, status_code : {200}, main : {"None"}, message : {"None"}]
        \cup [kind : {"json"}, status_code : {401}, main : {"None"},
              message : {"Invalid API key", "None"}]
        \cup [kind : {"raise"}, status_code : {0}, main : {"None"},
              message : {"Connection refused"}]

\* The lookup of lines 51-56 succeeds with this reply.
LookupSucceeds(reply) ==
    reply.kind = "json" /\ reply.status_code = 200 /\ reply.main # "None"

\* f"API Error: {data.get('message', 'Unknown error')}" (line 64).
ApiErrorString(reply) ==
    "API Error: " \o (IF reply.message = "None" THEN "Unknown error" ELSE reply.message)

\* f"Error: {str(e)}" (line 67): the exception of requests.get, or the
\* KeyError of data['weather'] on line 56.
ErrorString(reply) ==
    "Error: " \o (IF reply.kind = "raise" THEN reply.message ELSE "'weather'")

\* What the call returns when it makes the request (lines 50-67).
LookupResult(reply) ==
    IF reply.kind = "raise" THEN ErrorString(reply)
    ELSE IF reply.status_code = 200
         THEN IF reply.main # "None" THEN reply.main ELSE ErrorString(reply)
         ELSE ApiErrorString(reply)

\* A test that refreshes as soon as the interval has passed.
CacheExpiredInclusive(wd, now) ==
    wd.last_updated = NoneTime \/ now - wd.last_updated >= weather_update_interval

\* Lines 42-43.
CacheExpired(wd, now) ==
    wd.last_updated = NoneTime \/ now - wd.last_updated > weather_update_interval

\* A lookup that stamps the cache with the time of a failed request as well.
AfterLookupStampingFailure(wd, reply, now) ==
    IF LookupSucceeds(reply)
    THEN [weather_condition |-> reply.main, last_updated |-> now]
    ELSE [wd EXCEPT !.last_updated = now]

\* Lines 57-60: only a successful lookup assigns self.weather_data.
AfterLookup(wd, reply, now) ==
    IF LookupSucceeds(reply)
    THEN [weather_condition |-> reply.main, last_updated |-> now]
    ELSE wd

\* not self.api_key (line 46).
ApiKeyMissing == api_key \in {"None", ""}

\* Lines 34-35 with the key of line 32; no call has been made.
InitWeather ==
    /\ api_key \in ApiKeys
    /\ weather_data = [weather_condition |-> "Unknown", last_updated |-> NoneTime]
    /\ weather_time = 0
    /\ weather_returned = "None"
    /\ service_called = FALSE

\* One call of _get_weather_condition (lines 37-69) at clock reading now,
\* with the reply the service would give.
GetWeatherCondition(now, reply) ==
    /\ weather_time' = now
    /\ IF CacheExpired(weather_data, now)
       THEN IF ApiKeyMissing
            THEN /\ weather_returned' = "Weather API key not set"
                 /\ service_called' = FALSE
                 /\ UNCHANGED weather_data
            ELSE /\ service_called' = TRUE
                 /\ weather_data' = AfterLookup(weather_data, reply, now)
                 /\ weather_returned' = LookupResult(reply)
       ELSE /\ weather_returned' = weather_data.weather_condition
            /\ service_called' = FALSE
            /\ UNCHANGED weather_data
    /\ UNCHANGED api_key
    /\ UNCHANGED <<tms_vars, db_vars, ctor_vars, run_vars>>

(***************************************************************************)
(* Specifications                                                          *)
(***************************************************************************)
\* The weather key is set in the specifications that make no weather call.
Init == InitTMS /\ InitDB /\ InitRun /\ InitWeather /\ api_key = "value"
\* The start before a DatabaseManager is constructed.
InitConstruct ==
    InitTMS /\ InitUnconstructed /\ InitRun /\ InitWeather /\ api_key = "value"
\* The start with any setting of WEATHER_API_KEY.
InitAnyKey == InitTMS /\ InitDB /\ InitRun /\ InitWeather

NextWeather == \E now \in WeatherTimes, reply \in ServiceReplies : GetWeatherCondition(now, reply)

\* The frame-processing path: process_frame called again and again.
NextTMS ==
    \/ \E now \in Times : ProcessFrameBegin(now)
    \/ \E o \in Observations : ProcessObservation(o)
    \/ ProcessFrameRaise
    \/ ProcessFrameReturn

\* The frame-processing path with a caller that may pass a frame twice.
NextReplay ==
    \/ \E now \in Times : ProcessFrameBegin(now)
    \/ \E now \in Times : ReplayFirstCall(now)
    \/ \E now \in Times : ReplaySecondCall(now)
    \/ \E o \in Observations : ProcessObservation(o)
    \/ ProcessFrameRaise
    \/ ProcessFrameReturn

Shutdown ==
    \/ ShutdownSetFlag
    \/ ShutdownJoinThread
    \/ ShutdownJoinThreadTimeout
    \/ ShutdownJoinQueue
    \/ ShutdownClose

\* The DatabaseManager: its callers, its worker thread, one shutdown() call.
NextDB ==
    \/ \E doc \in VehicleDocs : AddVehicle(doc)
    \/ WorkerCheck
    \/ WorkerGet
    \/ WorkerGetTimeout
    \/ WorkerInsertCall
    \/ WorkerInsertReturn
    \/ WorkerInsertRaise
    \/ WorkerTaskDone
    \/ ShutdownSetFlag
    \/ ShutdownJoinThread
    \/ ShutdownJoinThreadTimeout
    \/ ShutdownJoinQueue
    \/ ShutdownClose

\* The two execution contexts side by side: the frame loop, which calls
\* process_frame and add_vehicle, and the worker thread; shutdown() is called
\* from the first.  The frames have one vehicle and the events one type.
ContextTimes == {0, 15}
ContextObservations == [track_id : {1}, x : {green_line_y - start_margin, red_line_y + 1}, cls : DOMAIN names]
ContextDocs == {"car"}
NextContexts ==
    \/ \E now \in ContextTimes : ProcessFrameBegin(now)
    \/ \E o \in ContextObservations : ProcessObservation(o)
    \/ ProcessFrameReturn
    \/ \E doc \in ContextDocs : AddVehicle(doc)
    \/ WorkerCheck
    \/ WorkerGet
    \/ WorkerGetTimeout
    \/ WorkerInsertCall
    \/ WorkerInsertReturn
    \/ WorkerInsertRaise
    \/ WorkerTaskDone
    \/ ShutdownSetFlag
    \/ ShutdownJoinThread
    \/ ShutdownJoinThreadTimeout
    \/ ShutdownJoinQueue
    \/ ShutdownClose

\* The construction of a DatabaseManager and what is done with it.
NextConstruct ==
    \/ Construct
    \/ \E doc \in VehicleDocs : AddVehicle(doc)
    \/ WorkerCheck
    \/ WorkerGet
    \/ WorkerGetTimeout
    \/ WorkerInsertCall
    \/ WorkerInsertReturn
    \/ WorkerInsertRaise
    \/ WorkerTaskDone
    \/ ShutdownSetFlag
    \/ ShutdownJoinThread
    \/ ShutdownJoinThreadTimeout
    \/ ShutdownJoinQueue
    \/ ShutdownClose

\* run.py: the callback called by process_video, the worker thread and the
\* finally block.
NextRun ==
    \/ \E res \in RunResults, tod \in TimesOfDay : ResultCallback(res, tod)
    \/ ProcessVideoEnds
    \/ FinallySetFlag
    \/ FinallyJoinThread
    \/ FinallyJoinThreadTimeout
    \/ FinallyJoinQueue
    \/ WorkerCheck
    \/ WorkerGet
    \/ WorkerGetTimeout
    \/ WorkerInsertCall
    \/ WorkerInsertReturn
    \/ WorkerInsertRaise
    \/ WorkerTaskDone

Next == NextTMS \/ NextDB

Spec == Init /\ [][Next]_vars
SpecTMS == Init /\ [][NextTMS]_vars
SpecWeather == InitAnyKey /\ [][NextWeather]_vars
SpecContexts == Init /\ [][NextContexts]_vars
SpecReplay == Init /\ [][NextReplay]_vars
SpecDB == Init /\ [][NextDB]_vars
SpecConstruct == InitConstruct /\ [][NextConstruct]_vars
SpecRun == Init /\ [][NextRun]_vars
\* The main thread of run.py keeps running: each statement of the finally
\* block is executed once it is reached, and the join of line 117 returns
\* after its timeout at the latest.
FairSpecRun ==
    /\ SpecRun
    /\ WF_vars(FinallySetFlag)
    /\ WF_vars(FinallyJoinThread \/ FinallyJoinThreadTimeout)

\* The threads are scheduled fairly and a store write that does not fail
\* returns: every step of the worker and of shutdown() that stays possible is
\* taken.  Callers of add_vehicle are under no obligation.
FairSpecDB ==
    /\ SpecDB
    /\ WF_vars(WorkerCheck)
    /\ WF_vars(WorkerGet)
    /\ WF_vars(WorkerGetTimeout)
    /\ WF_vars(WorkerInsertCall)
    /\ WF_vars(WorkerInsertReturn)
    /\ WF_vars(WorkerTaskDone)
    /\ WF_vars(Shutdown)

(***************************************************************************)
(* Vocabulary of the properties                                            *)
(***************************************************************************)
HasStart(vts, t) == t \in DOMAIN vts /\ "start" \in DOMAIN vts[t]
HasEnd(vts, t) == t \in DOMAIN vts /\ "end" \in DOMAIN vts[t]
IsPrefix(s, t) == Len(s) <= Len(t) /\ SubSeq(t, 1, Len(s)) = s

\* The step is one iteration of the for loop; row' is the observation it handles.
IterationStep == frame_pc = "loop" /\ frame_pc' = "loop" /\ rows_done' = rows_done + 1
\* The step appends one Detection Event to the response.
EmitsEvent == Len(detected_vehicles') = Len(detected_vehicles) + 1
LastEvent(events) == events[Len(events)]
\* The store has failed a write (the worker thread died of it).
WriteFailed == worker_pc = "crashed"

(***************************************************************************)
(* C1.  Every Detection Event is emitted by one iteration, for the id of   *)
(* its observation, while a start transition of that id is open (made and  *)
(* not yet used by an event); the emission uses the start transition up,   *)
(* so a crossing yields at most one event, and right after the emitting    *)
(* iteration vehicle_timestamps holds no record for the id.                *)
(***************************************************************************)
C1_OneEventPerCrossing ==
    [][/\ IterationStep =>
            /\ Len(detected_vehicles') \in {Len(detected_vehicles), Len(detected_vehicles) + 1}
            /\ SubSeq(detected_vehicles', 1, Len(detected_vehicles)) = detected_vehicles
            /\ EmitsEvent =>
                  LET t == row'.track_id
                  IN  /\ LastEvent(detected_vehicles').vehicle_id = t
                      /\ crossing_open[t]
                      /\ ~crossing_open'[t]
                      /\ t \notin DOMAIN vehicle_timestamps'
       /\ ~IterationStep => Len(detected_vehicles') <= Len(detected_vehicles)
      ]_vars

\* An iteration has just emitted the event of id 1 and its record is gone,
\* while the record of id 2 is still open.
C1_Witness ==
    /\ frame_pc = "loop"
    /\ row = [track_id |-> 1, x |-> 1139, cls |-> 2]
    /\ Len(detected_vehicles) = 1
    /\ detected_vehicles[1].vehicle_id = 1
    /\ 1 \notin DOMAIN vehicle_timestamps
    /\ HasStart(vehicle_timestamps, 2)

(***************************************************************************)
(* C7.  Start transition: an iteration on an observation of id t at x sets *)
(* the start time of t's record to the current frame clock exactly when    *)
(* 418 <= x <= 518 and the record had no start time; for any other x a     *)
(* record without a start time stays without one.                          *)
(***************************************************************************)
C7_StartTransition ==
    [][IterationStep =>
          LET t == row'.track_id
              x == row'.x
              had == HasStart(vehicle_timestamps, t)
              has == HasStart(vehicle_timestamps', t)
              inZone == 418 <= x /\ x <= 518
          IN  /\ green_line_y - start_margin = 418
              /\ green_line_y + start_margin = 518
              /\ (inZone /\ ~had) =>
                    (has /\ vehicle_timestamps'[t]["start"] = current_time)
              /\ (~inZone /\ ~had) => ~has
      ]_vars

\* The start time of id 1 has just been set, at the lower edge of the zone,
\* in a frame later than the first.
C7_Witness ==
    /\ frame_pc = "loop"
    /\ rows_done = 1
    /\ row = [track_id |-> 1, x |-> 418, cls |-> 2]
    /\ current_time = 10
    /\ HasStart(vehicle_timestamps, 1)
    /\ vehicle_timestamps[1]["start"] = 10

(***************************************************************************)
(* C8.  End transition: an iteration on an observation of id t at x emits  *)
(* a Detection Event exactly when x > 1138 (the end line) and the record   *)
(* of t has a start time and no end time; x = 1138, or a record without a  *)
(* start time, emits nothing.                                              *)
(***************************************************************************)
C8_EndTransition ==
    [][IterationStep =>
          LET t == row'.track_id
              x == row'.x
          IN  /\ red_line_y = 1138
              /\ EmitsEvent <=>
                    (/\ x > 1138
                     /\ HasStart(vehicle_timestamps, t)
                     /\ ~HasEnd(vehicle_timestamps, t))
      ]_vars

\* The only row of the frame, at x = 1139, has emitted the event of id 1.
C8_Witness ==
    /\ frame_pc = "loop"
    /\ rows_done = 1
    /\ row = [track_id |-> 1, x |-> 1139, cls |-> 2]
    /\ Len(detected_vehicles) = 1
    /\ detected_vehicles[1].vehicle_id = 1

(***************************************************************************)
(* C9 as claimed.  A record with a start time, observed beyond the end     *)
(* line at least 1 second (10 tenths) after its start time, yields an      *)
(* event with speed > 0 and is removed.                                    *)
(***************************************************************************)
C9_PositiveSpeedFromOneSecond ==
    [][(/\ IterationStep
        /\ row'.x > red_line_y
        /\ HasStart(vehicle_timestamps, row'.track_id)
        /\ current_time - vehicle_timestamps[row'.track_id]["start"] >= 10)
       => (/\ EmitsEvent
           /\ LastEvent(detected_vehicles').speed > 0
           /\ row'.track_id \notin DOMAIN vehicle_timestamps')
      ]_vars

(***************************************************************************)
(* C9 amended.  The same, for an elapsed time of at least 1 second and at  *)
(* most 760.5 seconds: the speed is > 0 (at least 0.1 mph).  From 760.6    *)
(* seconds on the event is emitted and the record removed as well, but the *)
(* speed rounds to 0.0.                                                    *)
(***************************************************************************)
C9_PositiveSpeedUpTo760s ==
    [][(/\ IterationStep
        /\ row'.x > red_line_y
        /\ HasStart(vehicle_timestamps, row'.track_id)
        /\ current_time - vehicle_timestamps[row'.track_id]["start"] >= 10)
       => LET elapsed == current_time - vehicle_timestamps[row'.track_id]["start"]
          IN  /\ EmitsEvent
              /\ row'.track_id \notin DOMAIN vehicle_timestamps'
              /\ elapsed <= 7605 => LastEvent(detected_vehicles').speed > 0
              /\ elapsed >= 7606 => LastEvent(detected_vehicles').speed = 0
      ]_vars

\* An event with the least positive speed, 0.1 mph, has just been emitted:
\* 760.5 seconds lie between the start (at 1 s) and the end (at 761.5 s).
C9_Witness ==
    /\ frame_pc = "loop"
    /\ current_time = 7615
    /\ row.x = 1139
    /\ Len(detected_vehicles) = 2
    /\ detected_vehicles[1].speed = 0
    /\ detected_vehicles[2].speed = 1
    /\ DOMAIN vehicle_timestamps = {}

(***************************************************************************)
(* C10.  An event is appended only by an iteration whose observation is    *)
(* strictly beyond the end line, and for that observation's id; and a      *)
(* record leaves vehicle_timestamps only in an iteration that emits the    *)
(* event of its id.  So an id never observed beyond the end line emits     *)
(* nothing and keeps its record.                                           *)
(***************************************************************************)
C10_NoEndLineNoEvent ==
    [][/\ Len(detected_vehicles') > Len(detected_vehicles) =>
            /\ IterationStep
            /\ EmitsEvent
            /\ row'.x > 1138
            /\ LastEvent(detected_vehicles').vehicle_id = row'.track_id
       /\ \A t \in DOMAIN vehicle_timestamps :
            t \notin DOMAIN vehicle_timestamps' =>
                /\ IterationStep
                /\ EmitsEvent
                /\ row'.track_id = t
                /\ row'.x > 1138
      ]_vars

\* Id 1 entered the start zone at time 0 and, 761.6 seconds and at least one
\* frame later, is seen exactly on the end line: no event, and its record is
\* still there; id 2, seen outside the start zone only, has an empty record.
C10_Witness ==
    /\ frame_pc = "loop"
    /\ current_time = 7616
    /\ row = [track_id |-> 1, x |-> 1138, cls |-> 2]
    /\ detected_vehicles = <<>>
    /\ HasStart(vehicle_timestamps, 1)
    /\ vehicle_timestamps[1]["start"] = 0
    /\ 2 \in DOMAIN vehicle_timestamps
    /\ ~HasStart(vehicle_timestamps, 2)

(***************************************************************************)
(* C2 as claimed.  At-least-once delivery: once shutdown() has been        *)
(* invoked, the store connection is eventually released with every event   *)
(* enqueued before the invocation written, unless a store write fails.     *)
(* Checked under FairSpecDB.                                               *)
(***************************************************************************)
C2_AtLeastOnceDelivery ==
    (shutdown_pc # "idle")
        ~> (WriteFailed \/ (client_closed /\ Len(stored) >= puts_before_shutdown))

(***************************************************************************)
(* C3 as claimed.  Once shutdown() has returned and no store write has     *)
(* failed, the number of completed store writes equals the number of       *)
(* add_vehicle calls made before shutdown() began.                         *)
(***************************************************************************)
C3_WritesEqualPutsBeforeShutdown ==
    (shutdown_pc = "returned" /\ ~WriteFailed) => Len(stored) = puts_before_shutdown

(***************************************************************************)
(* C3 amended.  Once shutdown() has returned and no store write has        *)
(* failed, every event enqueued before shutdown() began has been written   *)
(* once and in order: the completed writes are a prefix of the enqueued    *)
(* events at least as long as the number of add_vehicle calls made before  *)
(* shutdown() began, and exactly that long when no add_vehicle call was    *)
(* made after shutdown() began.                                            *)
(***************************************************************************)
C3_NoLossNoDuplication ==
    (shutdown_pc = "returned" /\ ~WriteFailed) =>
        /\ IsPrefix(stored, enqueued)
        /\ Len(stored) >= puts_before_shutdown
        /\ Len(enqueued) = puts_before_shutdown => Len(stored) = puts_before_shutdown

\* shutdown() has returned after two add_vehicle calls, both made before it
\* began and one still queued when the flag was set, and both are written.
C3_Witness ==
    /\ shutdown_pc = "returned"
    /\ ~WriteFailed
    /\ puts_before_shutdown = 2
    /\ Len(enqueued) = 2
    /\ worker_pc_at_flag = "get"
    /\ Len(stored) = 2

(***************************************************************************)
(* C4.  add_vehicle never waits: in every state, whatever the worker is    *)
(* doing (an insert_one call that has not returned included) and however   *)
(* many events are queued, an add_vehicle call can run to completion.      *)
(* (MaxEvents bounds the calls of one run of the model.)                   *)
(***************************************************************************)
C4_AddVehicleNeverBlocks ==
    Len(enqueued) < MaxEvents => \A doc \in VehicleDocs : ENABLED AddVehicle(doc)

\* An add_vehicle call has completed while insert_one had not returned, and
\* the write is still in progress with two events queued behind it.
C4_Witness ==
    /\ worker_pc = "inserting"
    /\ put_during_insert
    /\ Len(db_queue) >= 2

(***************************************************************************)
(* C5.  Store writes keep the enqueue order: the events passed to          *)
(* insert_one, in call order, are a prefix of the events passed to         *)
(* add_vehicle, in call order.                                             *)
(***************************************************************************)
C5_WritesInEnqueueOrder == IsPrefix(insert_calls, enqueued)

\* Two different documents have been passed to insert_one and a third waits.
C5_Witness ==
    /\ Len(insert_calls) = 2
    /\ insert_calls[1] # insert_calls[2]
    /\ Len(db_queue) = 1

(***************************************************************************)
(* C6.  Cancellation is cooperative: when the worker has left its loop     *)
(* because of the flag, every event it dequeued has had its insert_one     *)
(* call completed and its task_done call made, whenever the flag was set.  *)
(***************************************************************************)
C6_CooperativeCancellation ==
    worker_pc = "exited" =>
        /\ Len(insert_calls) = Len(enqueued) - Len(db_queue)
        /\ Len(stored) = Len(insert_calls)
        /\ unfinished_tasks = Len(db_queue)

\* The flag was set while insert_one had not returned; the worker has left
\* its loop with that write stored.
C6_Witness ==
    /\ worker_pc = "exited"
    /\ worker_pc_at_flag = "inserting"
    /\ Len(stored) = 1
    /\ stored[1] = vehicle_doc

(***************************************************************************)
(* C11.  Idempotence of a replayed frame: when process_frame is called     *)
(* again with the rows of the call that has just returned, the second call *)
(* emits no event for a track id the first call emitted an event for.      *)
(***************************************************************************)
C11_ReplayEmitsNoEventAgain ==
    [][(replay_pc = "again" /\ IterationStep /\ EmitsEvent)
       => \A i \in 1 .. Len(first_response) :
              first_response[i].vehicle_id # row'.track_id
      ]_vars

(***************************************************************************)
(* C12.  A process_frame call whose tracker result has no rows leaves      *)
(* vehicle_timestamps as it was and returns an empty detected_vehicles:    *)
(* the part before the loop changes no record and starts from an empty     *)
(* list, and the return after zero iterations changes no record either.    *)
(***************************************************************************)
C12_EmptyFrameNoEffect ==
    [][/\ (frame_pc = "idle" /\ frame_pc' = "loop")
          => (vehicle_timestamps' = vehicle_timestamps /\ detected_vehicles' = <<>>)
       /\ (frame_pc = "loop" /\ rows_done = 0 /\ frame_pc' = "idle")
          => (vehicle_timestamps' = vehicle_timestamps /\ detected_vehicles = <<>>)
      ]_vars

\* A call that found no rows is about to return; the store holds a record
\* with a start time and a record without one.
C12_Witness ==
    /\ frame_pc = "loop"
    /\ rows_done = 0
    /\ detected_vehicles = <<>>
    /\ HasStart(vehicle_timestamps, 1)
    /\ 2 \in DOMAIN vehicle_timestamps
    /\ ~HasStart(vehicle_timestamps, 2)

(***************************************************************************)
(* C13.  _calculate_speed returns 0 for every pair of timestamps whose     *)
(* difference end - start is <= 0 and never a negative value; so the last  *)
(* event of the running call has speed 0 when its end time is not after    *)
(* its start time, and no event has a negative speed.                      *)
(***************************************************************************)
C13_SpeedNeverNegative ==
    /\ \A s, e \in Times :
          /\ _calculate_speed(s, e) >= 0
          /\ e - s <= 0 => _calculate_speed(s, e) = 0
    /\ \A i \in 1 .. Len(detected_vehicles) : detected_vehicles[i].speed >= 0
    /\ (detected_vehicles # <<>> /\ current_time - local_start_time <= 0)
          => LastEvent(detected_vehicles).speed = 0

\* The clock was set back: an event whose end time (0 s) is 761.6 s before
\* its start time has been emitted with speed 0.
C13_Witness ==
    /\ frame_pc = "loop"
    /\ detected_vehicles # <<>>
    /\ local_start_time = 7616
    /\ current_time = 0
    /\ LastEvent(detected_vehicles).speed = 0

(***************************************************************************)
(* C14.  For end > start, the speed of the event (in tenths of a mph) is   *)
(* the whole number nearest to 10 * (17 / (end - start)) * 2.23694, the    *)
(* times being in seconds; for a difference of 1.5 s, as between 100 and   *)
(* 101.5, it is 25.4 mph.                                                  *)
(***************************************************************************)
C14_SpeedFormula ==
    /\ _calculate_speed(1000, 1015) = 254
    /\ (detected_vehicles # <<>> /\ current_time - local_start_time > 0)
          => LET time_diff == current_time - local_start_time
                 speed == LastEvent(detected_vehicles).speed
                 exact_num == 17 * 223694
                 exact_den == time_diff * 1000
             IN  /\ 2 * (speed * exact_den - exact_num) <= exact_den
                 /\ 2 * (exact_num - speed * exact_den) <= exact_den
                 /\ time_diff = 15 => speed = 254

\* An event for a crossing of 1.5 s has been emitted with 25.4 mph.
C14_Witness ==
    /\ frame_pc = "loop"
    /\ detected_vehicles # <<>>
    /\ local_start_time = 0
    /\ current_time = 15
    /\ LastEvent(detected_vehicles).speed = 254

(***************************************************************************)
(* C16.  A row whose class id is not in the names table is skipped on its  *)
(* own: the iteration that takes it changes no record and no event, and    *)
(* the loop goes on to the remaining rows of the frame.                    *)
(***************************************************************************)
C16_MalformedRowSkipped ==
    [][(/\ frame_pc = "loop"
        /\ rows_done' = rows_done + 1
        /\ row'.cls \notin DOMAIN names)
       => (/\ frame_pc' = "loop"
           /\ vehicle_timestamps' = vehicle_timestamps
           /\ detected_vehicles' = detected_vehicles)
      ]_vars

(***************************************************************************)
(* C18.  Crossing-record invariant: vehicle_timestamps maps track ids to   *)
(* one record each, and no record has an end time, in every state a        *)
(* process_frame call leaves behind (and after every iteration): a record  *)
(* that receives its end time is deleted in the same iteration.            *)
(***************************************************************************)
C18_CrossingRecordInvariant ==
    /\ DOMAIN vehicle_timestamps \subseteq TrackIds
    /\ \A t \in DOMAIN vehicle_timestamps :
          /\ ~HasEnd(vehicle_timestamps, t)
          /\ DOMAIN vehicle_timestamps[t] \subseteq {"start"}

\* Between two calls: the record of id 2 received its end time in an earlier
\* call and is gone, the record of id 1 still waits with its start time.
C18_Witness ==
    /\ frame_pc = "idle"
    /\ HasStart(vehicle_timestamps, 1)
    /\ 2 \notin DOMAIN vehicle_timestamps
    /\ current_time = 7616
    /\ vehicle_timestamps[1]["start"] = 15

(***************************************************************************)
(* C15.  When one of the three configuration values is not set or empty,   *)
(* DatabaseManager() ends with a ValueError that names a variable whose    *)
(* value is missing: no client has been created, no queue, no worker       *)
(* thread, nothing is ever enqueued or written, and no attribute holds a   *)
(* value that is not in the environment.  A manager that is constructed    *)
(* holds exactly the three values of the environment.                      *)
(***************************************************************************)
C15_MissingConfigFailsFast ==
    /\ (manager_pc # "new" /\ \E n \in EnvNames : environ[n] \in {"None", ""})
          => /\ manager_pc = "ValueError"
             /\ error_variable \in EnvNames
             /\ environ[error_variable] \in {"None", ""}
             /\ ~client_created
             /\ ~queue_created
             /\ worker_pc = "not_started"
             /\ enqueued = <<>>
             /\ insert_calls = <<>>
             /\ shutdown_pc = "idle"
             /\ \A n \in EnvNames : manager_config[n] \in {environ[n], "None"}
    /\ manager_pc = "constructed"
          => /\ manager_config = environ
             /\ \A n \in EnvNames : environ[n] \notin {"None", ""}

\* The collection name is the empty string, the other two values are set:
\* the constructor has raised the ValueError that names the collection name.
C15_Witness ==
    /\ manager_pc = "ValueError"
    /\ error_variable = "MONGODB_COLLECTION_NAME"
    /\ environ["MONGODB_COLLECTION_NAME"] = ""
    /\ environ["MONGODB_CONNECTION_STRING"] = "value"
    /\ environ["MONGODB_DATABASE_NAME"] = "value"
    /\ ~client_created
    /\ worker_pc = "not_started"

(***************************************************************************)
(* C17.  A failed store write is not retried: the insert_one calls are, in *)
(* order, calls for the first events enqueued, one call each, and once a   *)
(* call has raised the event of that call is never stored.  The producers  *)
(* are not stopped: add_vehicle still accepts every document and           *)
(* process_frame can still be called.                                      *)
(***************************************************************************)
C17_FailedWriteNotRetried ==
    /\ IsPrefix(insert_calls, enqueued)
    /\ Len(insert_calls) <= Len(enqueued) - Len(db_queue)
    /\ WriteFailed =>
          /\ IsPrefix(stored, insert_calls)
          /\ Len(stored) = Len(insert_calls) - 1
          /\ Len(enqueued) < MaxEvents => \A doc \in VehicleDocs : ENABLED AddVehicle(doc)
          /\ \A now \in Times : ENABLED ProcessFrameBegin(now)

\* The second write has failed, the first is stored, and an add_vehicle
\* call made after the failure has put its document on the queue.
C17_Witness ==
    /\ WriteFailed
    /\ put_after_failure
    /\ Len(insert_calls) = 2
    /\ Len(stored) = 1
    /\ Len(db_queue) >= 1

(***************************************************************************)
(* C19.  result_callback before end_time: every step that changes the      *)
(* statistics, the queue or the enqueued documents is one call that        *)
(* appends, in list order, one document per entry of the result's          *)
(* detected_vehicles; and at all times total_vehicles is the number of     *)
(* documents enqueued and the sum of the vehicles_by_type counts, and      *)
(* last_weather is the weather_condition of the latest result.             *)
(***************************************************************************)
RECURSIVE SumOver(_, _)
SumOver(d, S) ==
    IF S = {} THEN 0
    ELSE LET k == CHOOSE j \in S : TRUE
         IN  d[k] + SumOver(d, S \ {k})

C19_CallbackEnqueuesAndCounts ==
    /\ [](/\ session_stats.total_vehicles = Len(enqueued)
          /\ session_stats.total_vehicles =
                SumOver(session_stats.vehicles_by_type, DOMAIN session_stats.vehicles_by_type)
          /\ session_stats.last_weather = result.weather_condition)
    /\ [][(enqueued' # enqueued \/ session_stats' # session_stats \/ result' # result)
          => LET entries == result'.detected_vehicles
                 docs == [i \in 1 .. Len(entries) |->
                            [vehicle_type |-> entries[i].vehicle_type,
                             speed |-> entries[i].speed,
                             weather_condition |-> result'.weather_condition]]
             IN  /\ callback_time' < script_end_time
                 /\ enqueued' = enqueued \o docs
                 /\ db_queue' = db_queue \o docs
         ]_vars

\* Two calls have enqueued three documents: a car under "Clear", then a
\* truck and a car under "Rain".
C19_Witness ==
    /\ session_stats.total_vehicles = 3
    /\ DOMAIN session_stats.vehicles_by_type = {"car", "truck"}
    /\ session_stats.vehicles_by_type["car"] = 2
    /\ session_stats.vehicles_by_type["truck"] = 1
    /\ session_stats.last_weather = "Rain"
    /\ Len(enqueued) = 3
    /\ enqueued[1].weather_condition = "Clear"
    /\ enqueued[2].vehicle_type = "truck"
    /\ Len(result.detected_vehicles) = 2

C22_EveryRecordHasStart ==
    frame_pc = "idle" =>
        \A t \in DOMAIN vehicle_timestamps : "start" \in DOMAIN vehicle_timestamps[t]

(***************************************************************************)
(* C23.  Once a record has a start time the start time stays as it is      *)
(* until the record is deleted; a start time appears only in the iteration *)
(* of an observation of that id in the start zone and is the clock reading *)
(* of that call; the speed of an event is computed from the start time the *)
(* record held before the iteration and the clock reading of the call.     *)
(***************************************************************************)
C23_StartTimeSetOnce ==
    [][\A t \in TrackIds :
          /\ (HasStart(vehicle_timestamps, t) /\ t \in DOMAIN vehicle_timestamps')
                => /\ HasStart(vehicle_timestamps', t)
                   /\ vehicle_timestamps'[t]["start"] = vehicle_timestamps[t]["start"]
          /\ (~HasStart(vehicle_timestamps, t) /\ HasStart(vehicle_timestamps', t))
                => /\ IterationStep
                   /\ row'.track_id = t
                   /\ InStartZone(row'.x)
                   /\ vehicle_timestamps'[t]["start"] = current_time
          /\ (IterationStep /\ EmitsEvent /\ row'.track_id = t)
                => /\ HasStart(vehicle_timestamps, t)
                   /\ local_start_time' = vehicle_timestamps[t]["start"]
                   /\ LastEvent(detected_vehicles').speed =
                         _calculate_speed(vehicle_timestamps[t]["start"], current_time)
      ]_vars

\* An id whose start time is 0 is observed in the start zone again at 15.
C23_Witness ==
    /\ frame_pc = "loop"
    /\ row = [track_id |-> 1, x |-> 418, cls |-> 2]
    /\ current_time = 15
    /\ HasStart(vehicle_timestamps, 1)
    /\ vehicle_timestamps[1]["start"] = 0

(***************************************************************************)
(* C24.  An event removes the record of its id and closes the crossing; a  *)
(* record that appears for an absent id is fresh: it has no end time, and  *)
(* a start time only if the observation is in the start zone, which then   *)
(* is the clock reading of the call; an event is emitted only while a      *)
(* start transition made after the last event of the id is open, and the   *)
(* start time it uses is the one of the record made since.                 *)
(***************************************************************************)
C24_ReappearanceStartsFresh ==
    [][IterationStep =>
          LET t == row'.track_id
          IN  /\ EmitsEvent
                    => /\ t \notin DOMAIN vehicle_timestamps'
                       /\ crossing_open[t] /\ ~crossing_open'[t]
                       /\ HasStart(vehicle_timestamps, t)
                       /\ local_start_time' = vehicle_timestamps[t]["start"]
              /\ (t \notin DOMAIN vehicle_timestamps /\ t \in DOMAIN vehicle_timestamps')
                    => /\ ~HasEnd(vehicle_timestamps', t)
                       /\ HasStart(vehicle_timestamps', t)
                            => /\ InStartZone(row'.x)
                               /\ vehicle_timestamps'[t]["start"] = current_time
              /\ (~crossing_open[t] /\ crossing_open'[t])
                    => /\ InStartZone(row'.x)
                       /\ HasStart(vehicle_timestamps', t)
                       /\ vehicle_timestamps'[t]["start"] = current_time
      ]_vars

\* In one call id 1 has produced an event from an older start time and is
\* then observed in the start zone: its record is new and starts now.
C24_Witness ==
    /\ frame_pc = "loop"
    /\ Len(detected_vehicles) = 1
    /\ detected_vehicles[1].vehicle_id = 1
    /\ row = [track_id |-> 1, x |-> 418, cls |-> 2]
    /\ crossing_open[1]
    /\ HasStart(vehicle_timestamps, 1)
    /\ vehicle_timestamps[1]["start"] = current_time
    /\ local_start_time # current_time

(***************************************************************************)
(* C27.  The response a call returns has number_of_vehicles_detected equal *)
(* to the length of detected_vehicles.                                     *)
(***************************************************************************)
C27_CountMatchesEvents ==
    [][(frame_pc = "loop" /\ frame_pc' = "idle")
          => number_of_vehicles_detected = Len(detected_vehicles)]_vars

(***************************************************************************)
(* C25.  Under fair scheduling, an idle worker (at its loop test or in     *)
(* get) with the termination flag set and the queue empty leaves its loop  *)
(* without calling the store, as long as the queue stays empty: the timed  *)
(* get returns to the loop test, which sees the flag.  Checked under       *)
(* FairSpecDB for every number n of events enqueued so far.                *)
(***************************************************************************)
C25_IdleWorkerObservesTermination ==
    \A n \in 0..MaxEvents :
        (/\ terminate_worker
         /\ db_queue = <<>>
         /\ worker_pc \in {"check", "get"}
         /\ Len(enqueued) = n /\ Len(insert_calls) = n)
            ~> \/ worker_pc = "exited" /\ Len(insert_calls) = n
               \/ Len(enqueued) > n

\* The flag was set while the worker waited in get on a queue that never
\* held an event; the worker has left its loop and the store was never called.
C25_Witness ==
    /\ worker_pc = "exited"
    /\ worker_pc_at_flag = "get"
    /\ enqueued = <<>>
    /\ insert_calls = <<>>

(***************************************************************************)
(* C29.  If no store write fails, shutdown() eventually returns.  Checked  *)
(* under FairSpecDB.                                                       *)
(***************************************************************************)
C29_ShutdownReturnsWhenWritesSucceed ==
    (shutdown_pc = "join_thread") ~> (shutdown_pc = "returned" \/ WriteFailed)

ErrorStrings ==
    {"API Error: Invalid API key", "API Error: Unknown error",
     "Error: Connection refused", "Error: 'weather'"}
\* The latest call made the request and it failed.
LastLookupFailed == service_called /\ weather_returned \in ErrorStrings

(***************************************************************************)
(* C21.  After a successful lookup, a call whose clock reading is at most  *)
(* 600 seconds after last_updated returns the cached condition without     *)
(* calling the service and leaves the cache as it is; a call whose clock   *)
(* reading is more than 600 seconds after it calls the service.            *)
(***************************************************************************)
C21_WeatherCachedForInterval ==
    [][weather_data.last_updated # NoneTime =>
          /\ weather_time' - weather_data.last_updated <= 600
                => /\ weather_returned' = weather_data.weather_condition
                   /\ ~service_called'
                   /\ weather_data' = weather_data
          /\ weather_time' - weather_data.last_updated > 600
                => service_called'
      ]_vars

\* "Rain" was looked up at 0; the call at 600 returned it from the cache.
C21_Witness ==
    /\ weather_data = [weather_condition |-> "Rain", last_updated |-> 0]
    /\ weather_time = 600
    /\ weather_returned = "Rain"
    /\ ~service_called

(***************************************************************************)
(* C28 as claimed.  A call that makes the request either caches a          *)
(* condition or returns an error string and leaves weather_data as it was; *)
(* the call after a failed lookup makes the request again; with the API    *)
(* key missing a call returns "Weather API key not set" without making the *)
(* request.                                                                *)
(***************************************************************************)
C28_FailedLookupRetriedNextCall ==
    [][/\ service_called'
            => \/ /\ weather_returned' \in ErrorStrings
                  /\ weather_data' = weather_data
               \/ /\ weather_returned' \in Weathers
                  /\ weather_data' = [weather_condition |-> weather_returned',
                                      last_updated |-> weather_time']
       /\ LastLookupFailed => service_called'
       /\ ApiKeyMissing
            => /\ weather_returned' = "Weather API key not set"
               /\ ~service_called'
               /\ weather_data' = weather_data
      ]_vars

(***************************************************************************)
(* C28 amended.  As C28, but the call after a failed lookup makes the      *)
(* request again when its clock reading is not earlier than that of the    *)
(* failed call (the cache test is made anew on every call, so a clock set  *)
(* back to within 600 seconds of last_updated gets the cached condition).  *)
(***************************************************************************)
C28_FailedLookupLeavesCache ==
    [][/\ service_called'
            => \/ /\ weather_returned' \in ErrorStrings
                  /\ weather_data' = weather_data
               \/ /\ weather_returned' \in Weathers
                  /\ weather_data' = [weather_condition |-> weather_returned',
                                      last_updated |-> weather_time']
       /\ (LastLookupFailed /\ weather_time' >= weather_time) => service_called'
       /\ ApiKeyMissing
            => /\ weather_returned' = "Weather API key not set"
               /\ ~service_called'
               /\ weather_data' = weather_data
      ]_vars

\* "Clear" was cached at 0; the request of the call at 601 was refused and
\* the cache still holds the lookup of 0.
C28_Witness ==
    /\ weather_data = [weather_condition |-> "Clear", last_updated |-> 0]
    /\ weather_time = 601
    /\ service_called
    /\ weather_returned = "Error: Connection refused"

(***************************************************************************)
(* C26.  No step changes both the state of process_frame and the state of  *)
(* the persistence side: a step of the worker or of shutdown() leaves      *)
(* vehicle_timestamps and every other variable of process_frame as it is,  *)
(* and a step of process_frame leaves the queue, its task counter, the     *)
(* store and the worker as they are.                                       *)
(***************************************************************************)
C26_ContextsShareOnlyTheQueue ==
    [][/\ (worker_pc' # worker_pc \/ shutdown_pc' # shutdown_pc)
            => vehicle_timestamps' = vehicle_timestamps /\ tms_vars' = tms_vars
       /\ tms_vars' # tms_vars
            => /\ db_queue' = db_queue /\ enqueued' = enqueued
               /\ unfinished_tasks' = unfinished_tasks
               /\ insert_calls' = insert_calls /\ stored' = stored
               /\ db_vars' = db_vars
      ]_vars

\* The worker is writing an event while a call of process_frame is in its
\* loop with a started record in the store, and an event is still queued.
C26_Witness ==
    /\ worker_pc = "inserting"
    /\ db_queue # <<>>
    /\ frame_pc = "loop"
    /\ rows_done = 1
    /\ HasStart(vehicle_timestamps, 1)

\* The worker thread has a step to take.
WorkerCanStep ==
    ENABLED (\/ WorkerCheck \/ WorkerGet \/ WorkerGetTimeout \/ WorkerInsertCall
             \/ WorkerInsertReturn \/ WorkerInsertRaise \/ WorkerTaskDone)

(***************************************************************************)
(* C31.  A store-write failure affects only the failing event: as long as  *)
(* the termination flag is not set, events in the queue still have a       *)
(* worker that goes on to dequeue and write them.                          *)
(***************************************************************************)
C31_FailureAffectsOnlyFailingEvent ==
    (db_queue # <<>> /\ ~terminate_worker) => WorkerCanStep

(***************************************************************************)
(* C32.  insert_one is never called after client.close().                  *)
(***************************************************************************)
C32_NoInsertAfterClose ==
    [][client_closed => insert_calls' = insert_calls]_vars

(***************************************************************************)
(* C33.  Once the worker has left its loop it stays out: no step starts or *)
(* completes a store write or takes an event from the queue, while         *)
(* add_vehicle still accepts every document and puts it on the queue.      *)
(***************************************************************************)
C33_NoWriteAfterWorkerExit ==
    [][worker_pc = "exited" =>
          /\ worker_pc' = "exited"
          /\ stored' = stored
          /\ insert_calls' = insert_calls
          /\ IsPrefix(db_queue, db_queue')
          /\ Len(enqueued) < MaxEvents => \A doc \in VehicleDocs : ENABLED AddVehicle(doc)
      ]_vars

\* add_vehicle has been called after the worker left its loop: the document
\* is in the queue and shutdown() is waiting for it in db_queue.join().
C33_Witness ==
    /\ worker_pc = "exited"
    /\ put_after_exit
    /\ db_queue # <<>>
    /\ shutdown_pc = "join_queue"
    /\ Len(stored) < Len(enqueued)

(***************************************************************************)
(* C34 as claimed.  The start zone ends before the end line, so the        *)
(* iteration that emits an event finds the start time already set (no      *)
(* observation fires both transitions); and an event with time difference  *)
(* 0 is emitted only for an id whose start time was set earlier in the     *)
(* same call, by another observation of the id in that frame.              *)
(***************************************************************************)
C34_ZeroDifferenceOnlyWithinOneFrame ==
    [][(IterationStep /\ EmitsEvent) =>
          LET t == row'.track_id
          IN  /\ green_line_y + start_margin <= red_line_y
              /\ HasStart(vehicle_timestamps, t)
              /\ local_start_time' = current_time => t \in started_in_call
      ]_vars

(***************************************************************************)
(* C34 amended.  The start zone ends before the end line, so the iteration *)
(* that emits an event finds the start time already set; an event whose    *)
(* start time was set in the same call comes from a second observation of  *)
(* the id in that frame and has time difference 0 and speed 0; any other   *)
(* event has its start time from an earlier call (and can still have time  *)
(* difference 0, when that call read the same clock value).                *)
(***************************************************************************)
C34_SameFrameEventHasZeroDifference ==
    [][(IterationStep /\ EmitsEvent) =>
          LET t == row'.track_id
          IN  /\ green_line_y + start_margin <= red_line_y
              /\ HasStart(vehicle_timestamps, t)
              /\ t \in started_in_call
                    => /\ rows_done >= 1
                       /\ local_start_time' = current_time
                       /\ LastEvent(detected_vehicles').speed = 0
      ]_vars

\* Id 1 was observed in the start zone and then beyond the end line in one
\* frame: the event has time difference 0 and speed 0.
C34_Witness ==
    /\ frame_pc = "loop"
    /\ rows_done = 2
    /\ row = [track_id |-> 1, x |-> 1139, cls |-> 2]
    /\ 1 \in started_in_call
    /\ Len(detected_vehicles) = 1
    /\ detected_vehicles[1] = [vehicle_id |-> 1, vehicle_type |-> "car", speed |-> 0]
    /\ local_start_time = current_time

====
